---------------------------- MODULE Spec2Model ----------------------------
(***************************************************************************)
(* Stream operations of package redis (src/redis/stream.go): AddToStream,  *)
(* ReadFromStream, ReadGroupFromStream, AcknowledgeMessage,                *)
(* CreateConsumerGroup and ClaimPendingMessages, issued by several clients *)
(* against one stream key and one consumer group of a backing Redis        *)
(* server.                                                                 *)
(*                                                                         *)
(* The Service holds no state between calls; the state is the server's     *)
(* (the log, the group's last-delivered id and its pending entry list),    *)
(* the clock, and the position of every client inside the call it is       *)
(* running.  One backing request is one atomic step (the server executes   *)
(* commands one at a time); the statements of a wrapper that follow a      *)
(* request without issuing another one belong to the request's step.       *)
(* Entry ids are natural numbers inside the server and strings on the      *)
(* wire ("3-0"); FormatID and ParseID convert.                             *)
(***************************************************************************)
EXTENDS Integers, Sequences, FiniteSets, TLC

\* ------------------------------------------------------------------ bounds
MaxId == 2          \* largest entry id the log may assign
MaxTime == 2        \* the clock stops here
MaxDeliveries == 2  \* largest delivery_count a pending entry may reach
MaxFailures == 1    \* transport failures injected in one behaviour
ScanLen == 11       \* pending entries a claim loop starts with

\* ------------------------------------------------- constants of the source
timeout == 1                 \* inst.timeout, the configured timeout, in clock units
DefaultStreamID == "*"
DefaultLastID == "0"
DefaultGroupLastID == ">"
DefaultStartID == "$"
DefaultClaimCount == 100

ErrAddToStream == "failed to add entry to stream"
ErrReadFromStream == "failed to read from stream"
ErrReadGroupFromStream == "failed to read from consumer group"
ErrAcknowledgeMessage == "failed to acknowledge message"
ErrCreateConsumerGroup == "failed to create consumer group"
ErrClaimPendingMessages == "failed to claim pending messages"
NoErr == "nil"

\* causes wrapped by the errors above
ErrNil == "redis: nil"
CauseTransport == "transport"
CauseDeadline == "context deadline exceeded"
CauseBusyGroup == "BUSYGROUP"
CauseNoGroup == "NOGROUP"
CauseBadID == "ERR id not greater than top item"
NoCause == "none"

\* ------------------------------------------------------------ input sets
Clients == {"c1", "c2"}
Values == {"v1", "v2"}
Counts == {0, 1}
Blocks == {0, 1}
MinIdles == {0, 1}

\* ------------------------------------------------------- ids on the wire
IDTable == <<"1-0", "2-0", "3-0", "4-0", "5-0", "6-0", "7-0", "8-0", "9-0",
            "10-0", "11-0", "12-0", "13-0">>

FormatID(n) == IF n = 0 THEN "0-0" ELSE IDTable[n]

ParseID(s) ==
    IF s \in {"0", "0-0"} THEN 0
    ELSE CHOOSE n \in 1..Len(IDTable) : IDTable[n] = s

WireIDs == {FormatID(n) : n \in 1..MaxId}

VARIABLES
    stream,         \* the log: sequence of entries [id, fields], ids increasing
    streamExists,   \* the stream key exists
    groupExists,    \* the consumer group exists
    lastDelivered,  \* the group's last_delivered id
    groupStart,     \* the id the group was created at
    pel,            \* the group's pending entries [id, consumer, dtime, count]
    now,            \* the clock
    call,           \* call[c]: the wrapper call client c is inside, if any
    faults,         \* transport faults the environment may still inject
    served,         \* served[id]: times the server delivered id to a ">" request
    returned,       \* returned[id]: times a group-cursor read returned id
    last,           \* what the latest step did and returned
    scan            \* scan[c]: the cursor c's claim loop passes to its next call

vars == <<stream, streamExists, groupExists, lastDelivered, groupStart, pel,
          now, call,
          faults, served, returned, last, scan>>

\* ------------------------------------------------------ server, the log
LastId(s) == IF Len(s) = 0 THEN 0 ELSE s[Len(s)].id

StreamIds == {stream[i].id : i \in 1..Len(stream)}

EntryOf(id) == stream[CHOOSE i \in 1..Len(stream) : stream[i].id = id]

XMessage(e) == [ID |-> FormatID(e.id), Values |-> e.fields]

MsgIds(msgs) == {ParseID(msgs[i].ID) : i \in 1..Len(msgs)}

\* entries of the log with id > after, in log order
RECURSIVE After(_, _)
After(s, after) ==
    IF Len(s) = 0 THEN << >>
    ELSE IF s[1].id > after THEN s
    ELSE After(Tail(s), after)

\* COUNT n limits a reply to n entries; the request carries COUNT only if n > 0
Limit(s, count) ==
    IF count > 0 /\ Len(s) > count THEN SubSeq(s, 1, count) ELSE s

\* ids of a set, ascending
SortIds(S) ==
    [i \in 1..Cardinality(S) |->
        CHOOSE x \in S : Cardinality({y \in S : y < x}) = i - 1]

Bump(n) == n + 1


\* ---------------------------------------------- server, the group requests
Pending(id) == \E r \in pel : r.id = id

PendingOf(id) == CHOOSE r \in pel : r.id = id

\* XADD: the id the server assigns ("*" asks for the next one)
XAddID(streamID) ==
    IF streamID = "*" THEN LastId(stream) + 1 ELSE ParseID(streamID)

\* XREAD: the entries after the cursor
XReadInclusive(count, lastID) ==
    LET es == Limit(After(stream, ParseID(lastID) - 1), count)
    IN [i \in 1..Len(es) |-> XMessage(es[i])]

XRead(count, lastID) ==
    LET es == Limit(After(stream, ParseID(lastID)), count)
    IN [i \in 1..Len(es) |-> XMessage(es[i])]

\* XREADGROUP with ">": deliver the entries after last_delivered to consumer
XReadGroupNewSkip(consumer, count) ==
    LET es == Limit(After(stream, lastDelivered), count)
        ids == {es[i].id : i \in 1..Len(es)}
    IN [msgs |-> [i \in 1..Len(es) |-> XMessage(es[i])],
        pel |-> {r \in pel : r.id \notin ids} \cup
                {[id |-> id, consumer |-> consumer, dtime |-> now, count |-> 1] :
                    id \in ids},
        lastDelivered |-> LastId(stream)]

XReadGroupNewStay(consumer, count) ==
    LET es == Limit(After(stream, lastDelivered), count)
        ids == {es[i].id : i \in 1..Len(es)}
    IN [msgs |-> [i \in 1..Len(es) |-> XMessage(es[i])],
        pel |-> {r \in pel : r.id \notin ids} \cup
                {[id |-> id, consumer |-> consumer, dtime |-> now, count |-> 1] :
                    id \in ids},
        lastDelivered |-> lastDelivered]

XReadGroupNewTake(consumer, count) ==
    LET es == Limit(After(stream, lastDelivered), count)
        ids == {es[i].id : i \in 1..Len(es)}
    IN [msgs |-> [i \in 1..Len(es) |-> XMessage(es[i])],
        pel |-> {[r EXCEPT !.consumer = consumer] : r \in pel} \cup
                {[id |-> id, consumer |-> consumer, dtime |-> now, count |-> 1] :
                    id \in ids},
        lastDelivered |-> IF Len(es) = 0 THEN lastDelivered ELSE es[Len(es)].id]

XReadGroupNewAgain(consumer, count) ==
    LET Absent(e) == ~Pending(e.id)
        es == Limit(SelectSeq(After(stream, groupStart), Absent), count)
        ids == {es[i].id : i \in 1..Len(es)}
    IN [msgs |-> [i \in 1..Len(es) |-> XMessage(es[i])],
        pel |-> {r \in pel : r.id \notin ids} \cup
                {[id |-> id, consumer |-> consumer, dtime |-> now, count |-> 1] :
                    id \in ids},
        lastDelivered |-> IF Len(es) = 0 THEN lastDelivered ELSE es[Len(es)].id]

XReadGroupNewNoAck(consumer, count) ==
    LET es == Limit(After(stream, lastDelivered), count)
    IN [msgs |-> [i \in 1..Len(es) |-> XMessage(es[i])],
        pel |-> pel,
        lastDelivered |-> IF Len(es) = 0 THEN lastDelivered ELSE es[Len(es)].id]

XReadGroupNew(consumer, count) ==
    LET es == Limit(After(stream, lastDelivered), count)
        ids == {es[i].id : i \in 1..Len(es)}
    IN [msgs |-> [i \in 1..Len(es) |-> XMessage(es[i])],
        pel |-> {r \in pel : r.id \notin ids} \cup
                {[id |-> id, consumer |-> consumer, dtime |-> now, count |-> 1] :
                    id \in ids},
        lastDelivered |-> IF Len(es) = 0 THEN lastDelivered ELSE es[Len(es)].id]

\* XREADGROUP with an explicit id: replay the consumer's own pending entries
\* after that id; each replay counts as a delivery
XReadGroupHistoryNoCount(consumer, lastID, count) ==
    LET own == {r.id : r \in {q \in pel : q.consumer = consumer /\ q.id > ParseID(lastID)}}
        ids == Limit(SortIds(own), count)
        set == {ids[i] : i \in 1..Len(ids)}
    IN [msgs |-> [i \in 1..Len(ids) |-> XMessage(EntryOf(ids[i]))],
        pel |-> {r \in pel : r.id \notin set} \cup
                {[r EXCEPT !.dtime = now] : r \in {q \in pel : q.id \in set}},
        lastDelivered |-> lastDelivered]

XReadGroupHistoryRewind(consumer, lastID, count) ==
    LET own == {r.id : r \in {q \in pel : q.consumer = consumer /\ q.id > ParseID(lastID)}}
        ids == Limit(SortIds(own), count)
        set == {ids[i] : i \in 1..Len(ids)}
    IN [msgs |-> [i \in 1..Len(ids) |-> XMessage(EntryOf(ids[i]))],
        pel |-> {r \in pel : r.id \notin set} \cup
                {[r EXCEPT !.dtime = now, !.count = Bump(r.count)] :
                    r \in {q \in pel : q.id \in set}},
        lastDelivered |-> ParseID(lastID)]

XReadGroupHistoryLog(consumer, lastID, count) ==
    LET es == Limit(After(stream, ParseID(lastID)), count)
        set == {es[i].id : i \in 1..Len(es)}
    IN [msgs |-> [i \in 1..Len(es) |-> XMessage(es[i])],
        pel |-> {r \in pel : r.id \notin set} \cup
                {[id |-> id, consumer |-> consumer, dtime |-> now, count |-> 1] :
                    id \in set},
        lastDelivered |-> lastDelivered]

XReadGroupHistory(consumer, lastID, count) ==
    LET own == {r.id : r \in {q \in pel : q.consumer = consumer /\ q.id > ParseID(lastID)}}
        ids == Limit(SortIds(own), count)
        set == {ids[i] : i \in 1..Len(ids)}
    IN [msgs |-> [i \in 1..Len(ids) |-> XMessage(EntryOf(ids[i]))],
        pel |-> {r \in pel : r.id \notin set} \cup
                {[r EXCEPT !.dtime = now, !.count = Bump(r.count)] :
                    r \in {q \in pel : q.id \in set}},
        lastDelivered |-> lastDelivered]

XReadGroup(consumer, count, lastID) ==
    IF lastID = ">" THEN XReadGroupNew(consumer, count)
    ELSE XReadGroupHistory(consumer, lastID, count)

\* XACK: remove the pending entry, report how many were removed
XAckKeep(id) ==
    [n |-> IF Pending(ParseID(id)) THEN 1 ELSE 0, pel |-> pel]

XAck(id) ==
    [n |-> IF Pending(ParseID(id)) THEN 1 ELSE 0,
     pel |-> {r \in pel : r.id # ParseID(id)}]

\* XAUTOCLAIM scans the pending list in id order from the start id; it stops
\* after count claims or 10 * count entries looked at
AttemptsFactor == 10

\* the scan looks at the first entries of ids, at most attempts of them, and
\* stops at the one that is its count-th claim
ScanYoung(ids, attempts, count, minIdle, acc) ==
    LET looked == IF Len(ids) < attempts THEN Len(ids) ELSE attempts
        Ripe(id) == now - PendingOf(id).dtime <= minIdle
        Taken(i) == Cardinality({j \in 1..i : Ripe(ids[j])})
        stop == IF \E i \in 1..looked : Taken(i) = count
                THEN CHOOSE i \in 1..looked : Taken(i) = count /\ Ripe(ids[i])
                ELSE looked
    IN [claimed |-> acc \o SelectSeq(SubSeq(ids, 1, stop), Ripe),
        rest |-> SubSeq(ids, stop + 1, Len(ids))]

Scan(ids, attempts, count, minIdle, acc) ==
    LET looked == IF Len(ids) < attempts THEN Len(ids) ELSE attempts
        Ripe(id) == now - PendingOf(id).dtime >= minIdle
        Taken(i) == Cardinality({j \in 1..i : Ripe(ids[j])})
        stop == IF \E i \in 1..looked : Taken(i) = count
                THEN CHOOSE i \in 1..looked : Taken(i) = count /\ Ripe(ids[i])
                ELSE looked
    IN [claimed |-> acc \o SelectSeq(SubSeq(ids, 1, stop), Ripe),
        rest |-> SubSeq(ids, stop + 1, Len(ids))]

XAutoClaimCopy(consumer, minIdle, start, count) ==
    LET from == SortIds({r.id : r \in {q \in pel : q.id >= ParseID(start)}})
        sc == Scan(from, count * AttemptsFactor, count, minIdle, << >>)
        set == {sc.claimed[i] : i \in 1..Len(sc.claimed)}
    IN [msgs |-> [i \in 1..Len(sc.claimed) |-> XMessage(EntryOf(sc.claimed[i]))],
        next |-> IF Len(sc.rest) = 0 THEN FormatID(0) ELSE FormatID(sc.rest[1]),
        pel |-> pel \cup
                {[r EXCEPT !.consumer = consumer, !.dtime = now,
                           !.count = Bump(r.count)] :
                    r \in {q \in pel : q.id \in set}}]

XAutoClaimStale(consumer, minIdle, start, count) ==
    LET from == SortIds({r.id : r \in {q \in pel : q.id >= ParseID(start)}})
        sc == Scan(from, count * AttemptsFactor, count, minIdle, << >>)
        set == {sc.claimed[i] : i \in 1..Len(sc.claimed)}
    IN [msgs |-> [i \in 1..Len(sc.claimed) |-> XMessage(EntryOf(sc.claimed[i]))],
        next |-> IF Len(sc.rest) = 0 THEN FormatID(0) ELSE FormatID(sc.rest[1]),
        pel |-> {r \in pel : r.id \notin set} \cup
                {[r EXCEPT !.consumer = consumer, !.count = Bump(r.count)] :
                    r \in {q \in pel : q.id \in set}}]

XAutoClaimEager(consumer, minIdle, start, count) ==
    LET from == SortIds({r.id : r \in {q \in pel : q.id >= ParseID(start)}})
        sc == Scan(from, count * AttemptsFactor, count, 0, << >>)
        set == {sc.claimed[i] : i \in 1..Len(sc.claimed)}
    IN [msgs |-> [i \in 1..Len(sc.claimed) |-> XMessage(EntryOf(sc.claimed[i]))],
        next |-> IF Len(sc.rest) = 0 THEN FormatID(0) ELSE FormatID(sc.rest[1]),
        pel |-> {r \in pel : r.id \notin set} \cup
                {[r EXCEPT !.consumer = consumer, !.dtime = now,
                           !.count = Bump(r.count)] :
                    r \in {q \in pel : q.id \in set}}]

XAutoClaimBack(consumer, minIdle, start, count) ==
    LET from == SortIds({r.id : r \in {q \in pel : q.id >= ParseID(start)}})
        sc == Scan(from, count * AttemptsFactor, count, minIdle, << >>)
        set == {sc.claimed[i] : i \in 1..Len(sc.claimed)}
    IN [msgs |-> [i \in 1..Len(sc.claimed) |-> XMessage(EntryOf(sc.claimed[i]))],
        next |-> IF Len(sc.rest) = 0 THEN FormatID(0) ELSE FormatID(from[1]),
        pel |-> {r \in pel : r.id \notin set} \cup
                {[r EXCEPT !.consumer = consumer, !.dtime = now,
                           !.count = Bump(r.count)] :
                    r \in {q \in pel : q.id \in set}}]

XAutoClaimOwn(consumer, minIdle, start, count) ==
    LET from == SortIds({r.id : r \in {q \in pel : /\ q.id >= ParseID(start)
                                                    /\ q.consumer = consumer}})
        sc == Scan(from, count * AttemptsFactor, count, minIdle, << >>)
        set == {sc.claimed[i] : i \in 1..Len(sc.claimed)}
    IN [msgs |-> [i \in 1..Len(sc.claimed) |-> XMessage(EntryOf(sc.claimed[i]))],
        next |-> IF Len(sc.rest) = 0 THEN FormatID(0) ELSE FormatID(sc.rest[1]),
        pel |-> {r \in pel : r.id \notin set} \cup
                {[r EXCEPT !.consumer = consumer, !.dtime = now,
                           !.count = Bump(r.count)] :
                    r \in {q \in pel : q.id \in set}}]

XAutoClaimGreedy(consumer, minIdle, start, count) ==
    LET from == SortIds({r.id : r \in {q \in pel : q.id >= ParseID(start)}})
        sc == Scan(from, count * AttemptsFactor, Len(from) + 1, minIdle, << >>)
        set == {sc.claimed[i] : i \in 1..Len(sc.claimed)}
    IN [msgs |-> [i \in 1..Len(sc.claimed) |-> XMessage(EntryOf(sc.claimed[i]))],
        next |-> IF Len(sc.rest) = 0 THEN FormatID(0) ELSE FormatID(sc.rest[1]),
        pel |-> {r \in pel : r.id \notin set} \cup
                {[r EXCEPT !.consumer = consumer, !.dtime = now,
                           !.count = Bump(r.count)] :
                    r \in {q \in pel : q.id \in set}}]

XAutoClaim(consumer, minIdle, start, count) ==
    LET from == SortIds({r.id : r \in {q \in pel : q.id >= ParseID(start)}})
        sc == Scan(from, count * AttemptsFactor, count, minIdle, << >>)
        set == {sc.claimed[i] : i \in 1..Len(sc.claimed)}
    IN [msgs |-> [i \in 1..Len(sc.claimed) |-> XMessage(EntryOf(sc.claimed[i]))],
        next |-> IF Len(sc.rest) = 0 THEN FormatID(0) ELSE FormatID(sc.rest[1]),
        pel |-> {r \in pel : r.id \notin set} \cup
                {[r EXCEPT !.consumer = consumer, !.dtime = now,
                           !.count = Bump(r.count)] :
                    r \in {q \in pel : q.id \in set}}]

\* XGROUP CREATE ... MKSTREAM: where the new group starts
XGroupStartZero(startID) ==
    IF startID = "$" THEN 0 ELSE ParseID(startID)

XGroupStart(startID) ==
    IF startID = "$" THEN LastId(stream) ELSE ParseID(startID)

\* XGROUP CREATE ... MKSTREAM: an existing group is refused and left as it
\* is; otherwise the group is created, and the stream with it if missing
XGroupCreateAgain(startID) ==
    [cause |-> NoCause, groupExists |-> TRUE, streamExists |-> TRUE,
     lastDelivered |-> XGroupStart(startID),
     groupStart |-> XGroupStart(startID), pel |-> {}]

XGroupCreateNoStream(startID) ==
    IF groupExists
    THEN [cause |-> CauseBusyGroup, groupExists |-> TRUE,
          streamExists |-> streamExists, lastDelivered |-> lastDelivered,
          groupStart |-> groupStart, pel |-> pel]
    ELSE IF ~streamExists
    THEN [cause |-> "ERR no such key", groupExists |-> FALSE,
          streamExists |-> FALSE, lastDelivered |-> lastDelivered,
          groupStart |-> groupStart, pel |-> pel]
    ELSE [cause |-> NoCause, groupExists |-> TRUE, streamExists |-> TRUE,
          lastDelivered |-> XGroupStart(startID),
          groupStart |-> XGroupStart(startID), pel |-> {}]

XGroupCreate(startID) ==
    IF groupExists
    THEN [cause |-> CauseBusyGroup, groupExists |-> TRUE,
          streamExists |-> streamExists, lastDelivered |-> lastDelivered,
          groupStart |-> groupStart, pel |-> pel]
    ELSE [cause |-> NoCause, groupExists |-> TRUE, streamExists |-> TRUE,
          lastDelivered |-> XGroupStart(startID),
          groupStart |-> XGroupStart(startID), pel |-> {}]


\* ------------------------------------------------------------ bookkeeping
\* the arguments of a call: lastID as the caller passed it, cursor as sent,
\* count as sent and asked as the caller passed it
Req(api, lastID, cursor, count, block, autoAck) ==
    [api |-> api, lastID |-> lastID, cursor |-> cursor, count |-> count,
     asked |-> count, block |-> block, autoAck |-> autoAck, waited |-> FALSE]

NoReq == Req("", "", "", 0, 0, FALSE)

Idle == [st |-> "idle", req |-> NoReq, wake |-> 0, deadline |-> 0,
         msgs |-> << >>, k |-> 0, next |-> "", acks |-> 0]

\* the record of one step: the operation, who ran it, whether the wrapper
\* returned in this step, what it returned, and what the server had delivered
Step(req, client, done, err, cause, msgs) ==
    [api |-> req.api, req |-> req, client |-> client, done |-> done,
     err |-> err, cause |-> cause, msgs |-> msgs, next |-> "", n |-> 0,
     id |-> "", acks |-> 0, delivered |-> << >>, lost |-> FALSE]

Count(f, ids) == [id \in DOMAIN f |-> IF id \in ids THEN f[id] + 1 ELSE f[id]]

TypeOK ==
    /\ streamExists \in BOOLEAN
    /\ groupExists \in BOOLEAN
    /\ lastDelivered \in 0..Len(IDTable)
    /\ now \in 0..MaxTime
    /\ faults \in 0..MaxFailures
    /\ \A r \in pel : r.id \in 1..Len(IDTable) /\ r.consumer \in Clients
                      /\ r.dtime \in 0..MaxTime /\ r.count \in 1..MaxDeliveries
    /\ \A c \in Clients : call[c].st \in {"idle", "blocked", "acking"}
    /\ \A c \in Clients : ParseID(scan[c]) \in 0..Len(IDTable)

Init ==
    /\ stream = << >>
    /\ streamExists = FALSE
    /\ groupExists = FALSE
    /\ lastDelivered = 0
    /\ groupStart = 0
    /\ pel = {}
    /\ now = 0
    /\ call = [c \in Clients |-> Idle]
    /\ faults = MaxFailures
    /\ served = [id \in 1..MaxId |-> 0]
    /\ returned = [id \in 1..MaxId |-> 0]
    /\ last = Step(NoReq, "", FALSE, NoErr, NoCause, << >>)
    /\ scan = [c \in Clients |-> FormatID(0)]

\* a blocked request the server can answer now
Serviceable(c) ==
    /\ call[c].st = "blocked"
    /\ IF call[c].req.api = "ReadFromStream"
       THEN Len(After(stream, ParseID(call[c].req.cursor))) > 0
       ELSE Len(After(stream, lastDelivered)) > 0

\* the server answers blocked requests before it takes the next command
Quiet == \A c \in Clients : ~Serviceable(c)

CanFail == faults > 0

\* client c is free to start a call
Starts(c) == call[c].st = "idle"

\* no delivery takes a pending entry's count past the bound
Bounded(p) == \A r \in p : r.count <= MaxDeliveries

\* ----------------------------------------------------------- AddToStream
AddToStream(values, id) ==
    LET streamID == IF Len(id) > 0 THEN id[1] ELSE DefaultStreamID
        newID == XAddID(streamID)
        req == Req("AddToStream", IF Len(id) > 0 THEN id[1] ELSE "", streamID,
                   0, 0, FALSE)
    IN /\ Quiet
       /\ \/ /\ newID > LastId(stream)
             /\ newID <= MaxId
             /\ stream' = Append(stream, [id |-> newID, fields |-> values])
             /\ streamExists' = TRUE
             /\ last' = [Step(req, "producer", TRUE, NoErr, NoCause, << >>)
                           EXCEPT !.id = FormatID(newID)]
             /\ UNCHANGED faults
          \/ /\ newID <= LastId(stream)
             /\ last' = Step(req, "producer", TRUE, ErrAddToStream, CauseBadID, << >>)
             /\ UNCHANGED <<stream, streamExists, faults>>
          \/ /\ CanFail
             /\ faults' = faults - 1
             /\ last' = Step(req, "producer", TRUE, ErrAddToStream,
                             CauseTransport, << >>)
             /\ UNCHANGED <<stream, streamExists>>
       /\ UNCHANGED <<groupExists, lastDelivered, groupStart, pel, now, call,
                      served, returned, scan>>

\* ---------------------------------------------------- AcknowledgeMessage
AcknowledgeMessage(c, id) ==
    LET req == Req("AcknowledgeMessage", "", "", 0, 0, FALSE)
    IN /\ Quiet
       /\ Starts(c)
       /\ \/ /\ pel' = XAck(id).pel
             /\ last' = [Step(req, c, TRUE, NoErr, NoCause, << >>)
                           EXCEPT !.id = id, !.n = XAck(id).n, !.acks = 1]
             /\ UNCHANGED faults
          \/ /\ CanFail
             /\ faults' = faults - 1
             /\ \E lost \in BOOLEAN :
                   /\ pel' = IF lost THEN XAck(id).pel ELSE pel
                   /\ last' = [Step(req, c, TRUE, ErrAcknowledgeMessage,
                                    CauseTransport, << >>)
                                 EXCEPT !.id = id, !.acks = 1, !.lost = lost]
       /\ UNCHANGED <<stream, streamExists, groupExists, lastDelivered,
                      groupStart, now, call, served, returned, scan>>

\* --------------------------------------------------- CreateConsumerGroup
CreateConsumerGroup(c, startID) ==
    LET start == IF startID = "" THEN DefaultStartID ELSE startID
        req == Req("CreateConsumerGroup", startID, start, 0, 0, FALSE)
        r == XGroupCreate(start)
    IN /\ Quiet
       /\ Starts(c)
       /\ \/ /\ groupExists' = r.groupExists
             /\ streamExists' = r.streamExists
             /\ lastDelivered' = r.lastDelivered
             /\ groupStart' = r.groupStart
             /\ pel' = r.pel
             /\ last' = Step(req, c, TRUE,
                             IF r.cause = NoCause THEN NoErr
                             ELSE ErrCreateConsumerGroup,
                             r.cause, << >>)
             /\ UNCHANGED faults
          \/ /\ CanFail
             /\ faults' = faults - 1
             /\ last' = Step(req, c, TRUE, ErrCreateConsumerGroup,
                             CauseTransport, << >>)
             /\ UNCHANGED <<groupExists, streamExists, lastDelivered, groupStart,
                            pel>>
       /\ UNCHANGED <<stream, now, call, served, returned, scan>>

\* ------------------------------------- after the request: auto-ack or return
\* a returned batch counts for the ids it holds when the call asked for the
\* group-relative cursor (lastID empty)
Returns(req, msgs) ==
    IF req.api = "ReadGroupFromStream" /\ req.lastID = ""
    THEN Count(returned, MsgIds(msgs))
    ELSE returned

\* the auto-ack loop has acknowledged its last message
LoopDoneEarly(k, msgs) == k >= Len(msgs) - 1

LoopDone(k, msgs) == k = Len(msgs)

\* ReadGroupFromStream and ClaimPendingMessages continue alike once the
\* request has answered: with autoAck the batch is acknowledged entry by
\* entry, otherwise the batch is returned
CompleteSkip(c, req, msgs, next) ==
    /\ call' = [call EXCEPT ![c] = Idle]
    /\ last' = [Step(req, c, TRUE, NoErr, NoCause, msgs)
                  EXCEPT !.next = next, !.delivered = msgs]
    /\ returned' = Returns(req, msgs)

Complete(c, req, msgs, next) ==
    IF req.autoAck /\ Len(msgs) > 0
    THEN /\ call' = [call EXCEPT ![c] =
                       [Idle EXCEPT !.st = "acking", !.req = req,
                                    !.msgs = msgs, !.k = 1, !.next = next]]
         /\ last' = [Step(req, c, FALSE, NoErr, NoCause, << >>)
                       EXCEPT !.delivered = msgs]
         /\ UNCHANGED returned
    ELSE /\ call' = [call EXCEPT ![c] = Idle]
         /\ last' = [Step(req, c, TRUE, NoErr, NoCause, msgs)
                       EXCEPT !.next = next, !.delivered = msgs]
         /\ returned' = Returns(req, msgs)

\* the wrapper's error return: no entries, no cursor; delivered is what the
\* server had handed out when the answer got lost
FailsAnonymous(c, req, err, cause, delivered) ==
    /\ call' = [call EXCEPT ![c] = Idle]
    /\ last' = [Step(req, c, TRUE, ErrReadFromStream, cause, << >>)
                  EXCEPT !.delivered = delivered, !.lost = Len(delivered) > 0]
    /\ UNCHANGED returned

Fails(c, req, err, cause, delivered) ==
    /\ call' = [call EXCEPT ![c] = Idle]
    /\ last' = [Step(req, c, TRUE, err, cause, << >>)
                  EXCEPT !.delivered = delivered, !.lost = Len(delivered) > 0]
    /\ UNCHANGED returned

\* the loop ends at the first acknowledgment that fails: the call returns
AfterFailureGoesOn(cl) ==
    IF cl.k < Len(cl.msgs)
    THEN [cl EXCEPT !.k = cl.k + 1, !.acks = cl.acks + 1]
    ELSE Idle

AfterFailure(cl) == Idle

\* what the call returns when an acknowledgment of its loop failed
AckFailureKeeps(cl, c) ==
    [Step(cl.req, c, TRUE, ErrAcknowledgeMessage, CauseTransport, cl.msgs)
       EXCEPT !.next = cl.next]

AckFailure(cl, c) ==
    Step(cl.req, c, TRUE, ErrAcknowledgeMessage, CauseTransport, << >>)

\* one round of the auto-ack loop
AckNext(c) ==
    LET cl == call[c]
        msg == cl.msgs[cl.k]
        ack == XAck(msg.ID)
    IN /\ Quiet
       /\ cl.st = "acking"
       /\ \/ /\ pel' = ack.pel
             /\ UNCHANGED faults
             /\ IF LoopDone(cl.k, cl.msgs)
                THEN /\ call' = [call EXCEPT ![c] = Idle]
                     /\ last' = [Step(cl.req, c, TRUE, NoErr, NoCause, cl.msgs)
                                   EXCEPT !.next = cl.next, !.id = msg.ID,
                                          !.n = ack.n, !.acks = cl.acks + 1,
                                          !.delivered = cl.msgs]
                     /\ returned' = Returns(cl.req, cl.msgs)
                ELSE /\ call' = [call EXCEPT ![c].k = cl.k + 1,
                                             ![c].acks = cl.acks + 1]
                     /\ last' = [Step(cl.req, c, FALSE, NoErr, NoCause, << >>)
                                   EXCEPT !.id = msg.ID, !.n = ack.n,
                                          !.acks = cl.acks + 1,
                                          !.delivered = cl.msgs]
                     /\ UNCHANGED returned
          \/ /\ CanFail
             /\ faults' = faults - 1
             /\ call' = [call EXCEPT ![c] = AfterFailure(cl)]
             /\ \E lost \in BOOLEAN :
                   /\ pel' = IF lost THEN ack.pel ELSE pel
                   /\ last' = [AckFailure(cl, c)
                                 EXCEPT !.id = msg.ID, !.acks = cl.acks + 1,
                                        !.delivered = cl.msgs, !.lost = lost]
             /\ UNCHANGED returned
       /\ UNCHANGED <<stream, streamExists, groupExists, lastDelivered,
                      groupStart, now, served, scan>>

\* --------------------------------------------------- ReadGroupFromStream
\* the cursor sent with XREADGROUP
GroupCursorZero(lastID) == IF lastID = "" THEN DefaultLastID ELSE lastID

GroupCursor(lastID) == IF lastID = "" THEN DefaultGroupLastID ELSE lastID

\* the server's answer to XREADGROUP reaches the wrapper, or is lost
GroupReply(c, req, r) ==
    /\ Bounded(r.pel)
    /\ pel' = r.pel
    /\ lastDelivered' = r.lastDelivered
    /\ served' = IF req.cursor = ">" THEN Count(served, MsgIds(r.msgs)) ELSE served
    /\ \/ /\ Complete(c, req, r.msgs, "")
          /\ UNCHANGED faults
       \/ /\ CanFail
          /\ Len(r.msgs) > 0
          /\ faults' = faults - 1
          /\ Fails(c, req, ErrReadGroupFromStream, CauseTransport, r.msgs)

\* the context of a reading call ends block + timeout from now
CallDeadlineShort(req) == now + timeout

CallDeadline(req) == now + req.block + timeout

\* the request waits at the server: BLOCK is sent whenever block >= 0, and
\* BLOCK 0 waits without limit
Waits(c, req) ==
    /\ now + req.block + timeout <= MaxTime
    /\ call' = [call EXCEPT ![c] =
                  [Idle EXCEPT !.st = "blocked",
                               !.req = [req EXCEPT !.waited = TRUE],
                               !.wake = IF req.block > 0 THEN now + req.block
                                        ELSE -1,
                               !.deadline = CallDeadline(req)]]
    /\ last' = Step([req EXCEPT !.waited = TRUE], c, FALSE, NoErr, NoCause, << >>)

ReadGroupFromStream(c, count, block, lastID, autoAck) ==
    LET cursor == GroupCursor(lastID)
        req == Req("ReadGroupFromStream", lastID, cursor, count, block, autoAck)
        r == XReadGroup(c, count, cursor)
    IN /\ Quiet
       /\ Starts(c)
       /\ \/ /\ CanFail
             /\ faults' = faults - 1
             /\ Fails(c, req, ErrReadGroupFromStream, CauseTransport, << >>)
             /\ UNCHANGED <<pel, lastDelivered, served>>
          \/ /\ ~groupExists
             /\ Fails(c, req, ErrReadGroupFromStream, CauseNoGroup, << >>)
             /\ UNCHANGED <<pel, lastDelivered, served, faults>>
          \/ /\ groupExists
             /\ cursor # ">" \/ Len(r.msgs) > 0
             /\ GroupReply(c, req, r)
          \/ /\ groupExists
             /\ cursor = ">"
             /\ Len(r.msgs) = 0
             /\ Waits(c, req)
             /\ UNCHANGED <<pel, lastDelivered, served, faults, returned>>
       /\ UNCHANGED <<stream, streamExists, groupExists, groupStart, now, scan>>

\* ------------------------------------------------------- ReadFromStream
ReadFromStream(c, count, block, lastID) ==
    LET cursor == IF lastID = "" THEN DefaultLastID ELSE lastID
        req == Req("ReadFromStream", lastID, cursor, count, block, FALSE)
        result == XRead(count, cursor)
    IN /\ Quiet
       /\ Starts(c)
       /\ \/ /\ CanFail
             /\ faults' = faults - 1
             /\ Fails(c, req, ErrReadFromStream, CauseTransport, << >>)
          \/ /\ Len(result) > 0
             /\ Complete(c, req, result, "")
             /\ UNCHANGED faults
          \/ /\ Len(result) = 0
             /\ Waits(c, req)
             /\ UNCHANGED <<faults, returned>>
       /\ UNCHANGED <<stream, streamExists, groupExists, lastDelivered,
                      groupStart, pel, now, served, scan>>

\* ------------------------------------------------ a waiting request ends
\* an entry arrived: the server answers the waiting request
Serve(c) ==
    LET cl == call[c]
    IN /\ Serviceable(c)
       /\ IF cl.req.api = "ReadFromStream"
          THEN /\ Complete(c, cl.req, XRead(cl.req.count, cl.req.cursor), "")
               /\ UNCHANGED <<pel, lastDelivered, served, faults>>
          ELSE GroupReply(c, cl.req, XReadGroup(c, cl.req.count, cl.req.cursor))
       /\ UNCHANGED <<stream, streamExists, groupExists, groupStart, now, scan>>

ErrOf(api) ==
    IF api = "ReadFromStream" THEN ErrReadFromStream ELSE ErrReadGroupFromStream

\* the BLOCK time ran out: the server answers with a nil reply, which the
\* client library hands to the wrapper as the error redis.Nil
ServerTimeout(c) ==
    LET cl == call[c]
    IN /\ cl.st = "blocked"
       /\ ~Serviceable(c)
       /\ cl.wake >= 0
       /\ now >= cl.wake
       /\ Fails(c, cl.req, ErrOf(cl.req.api), ErrNil, << >>)
       /\ UNCHANGED <<stream, streamExists, groupExists, lastDelivered,
                      groupStart, pel, now, faults, served, scan>>

\* the context of the call ran out while the request was waiting
Deadline(c) ==
    LET cl == call[c]
    IN /\ cl.st = "blocked"
       /\ ~Serviceable(c)
       /\ now >= cl.deadline
       /\ Fails(c, cl.req, ErrOf(cl.req.api), CauseDeadline, << >>)
       /\ UNCHANGED <<stream, streamExists, groupExists, lastDelivered,
                      groupStart, pel, now, faults, served, scan>>

\* --------------------------------------------------- ClaimPendingMessages
\* the call, whatever the caller does with the cursor it returns
Claim(c, minIdleTime, startID, count, autoAck) ==
    LET cnt == IF count <= 0 THEN DefaultClaimCount ELSE count
        req == [Req("ClaimPendingMessages", startID, startID, cnt, minIdleTime,
                    autoAck) EXCEPT !.asked = count]
        r == XAutoClaim(c, minIdleTime, startID, cnt)
    IN /\ Quiet
       /\ Starts(c)
       /\ \/ /\ CanFail
             /\ faults' = faults - 1
             /\ Fails(c, req, ErrClaimPendingMessages, CauseTransport, << >>)
             /\ UNCHANGED pel
          \/ /\ ~groupExists
             /\ Fails(c, req, ErrClaimPendingMessages, CauseNoGroup, << >>)
             /\ UNCHANGED <<pel, faults>>
          \/ /\ groupExists
             /\ Bounded(r.pel)
             /\ pel' = r.pel
             /\ \/ /\ Complete(c, req, r.msgs, r.next)
                   /\ UNCHANGED faults
                \/ /\ CanFail
                   /\ Len(r.msgs) > 0
                   /\ faults' = faults - 1
                   /\ Fails(c, req, ErrClaimPendingMessages, CauseTransport,
                            r.msgs)
       /\ UNCHANGED <<stream, streamExists, groupExists, lastDelivered,
                      groupStart, now, served>>

\* one call with a start id of the caller's choice
ClaimPendingMessages(c, minIdleTime, startID, count, autoAck) ==
    /\ Claim(c, minIdleTime, startID, count, autoAck)
    /\ UNCHANGED scan

\* one round of a caller's claim loop: the call starts at the cursor the
\* round before returned, and a full scan ("0-0" returned) starts over
ClaimScan(c, minIdleTime, count) ==
    /\ Claim(c, minIdleTime, scan[c], count, FALSE)
    /\ scan' = [scan EXCEPT ![c] = IF last'.err = NoErr THEN last'.next
                                   ELSE scan[c]]

\* ------------------------------------------------------------- the clock
\* time passes; a server timeout or a context deadline that is due fires first
Tick ==
    /\ now < MaxTime
    /\ Quiet
    /\ \A c \in Clients :
          call[c].st = "blocked" =>
             /\ call[c].wake < 0 \/ now < call[c].wake
             /\ now < call[c].deadline
    /\ now' = now + 1
    /\ last' = Step(Req("Tick", "", "", 0, 0, FALSE), "clock", FALSE, NoErr,
                    NoCause, << >>)
    /\ UNCHANGED <<stream, streamExists, groupExists, lastDelivered, groupStart,
                   pel, call, faults, served, returned, scan>>

\* ------------------------------------------------------ the specifications
Cursors == {"", "0"}
StartIDs == {"", "0"}
ClaimStarts == {"0-0", "2-0"}
OneValue == {"v1"}

\* the backing service answers every request
InitReliable ==
    /\ stream = << >>
    /\ streamExists = FALSE
    /\ groupExists = FALSE
    /\ lastDelivered = 0
    /\ groupStart = 0
    /\ pel = {}
    /\ now = 0
    /\ call = [c \in Clients |-> Idle]
    /\ faults = 0
    /\ served = [id \in 1..MaxId |-> 0]
    /\ returned = [id \in 1..MaxId |-> 0]
    /\ last = Step(NoReq, "", FALSE, NoErr, NoCause, << >>)
    /\ scan = [c \in Clients |-> FormatID(0)]

\* producers and the consumers of one group, no failure, no timeout
Next ==
    \/ \E v \in OneValue : AddToStream(v, << >>)
    \/ \E c \in Clients, startID \in StartIDs : CreateConsumerGroup(c, startID)
    \/ \E c \in Clients, count \in Counts, lastID \in Cursors, autoAck \in BOOLEAN :
          ReadGroupFromStream(c, count, 0, lastID, autoAck)
    \/ \E c \in Clients, id \in WireIDs : AcknowledgeMessage(c, id)
    \/ \E c \in Clients, count \in Counts, autoAck \in BOOLEAN :
          ClaimPendingMessages(c, 0, "0-0", count, autoAck)
    \/ \E c \in Clients : AckNext(c)
    \/ \E c \in Clients : Serve(c)

Spec == InitReliable /\ [][Next]_vars


\* one consumer against a backing service that may fail
NextFaulty ==
    \/ \E v \in OneValue : AddToStream(v, << >>)
    \/ CreateConsumerGroup("c1", "0")
    \/ \E count \in Counts, lastID \in Cursors, autoAck \in BOOLEAN :
          ReadGroupFromStream("c1", count, 0, lastID, autoAck)
    \/ \E id \in WireIDs : AcknowledgeMessage("c1", id)
    \/ \E count \in Counts, autoAck \in BOOLEAN :
          ClaimPendingMessages("c1", 0, "0-0", count, autoAck)
    \/ AckNext("c1")
    \/ Serve("c1")

SpecFaulty == Init /\ [][NextFaulty]_vars

\* producers and direct readers, with the clock
ReadCursors == {"", "0", "1-0"}

NextRead ==
    \/ \E v \in Values, id \in {<< >>} \cup {<<w>> : w \in WireIDs} :
          AddToStream(v, id)
    \/ \E c \in Clients, count \in Counts, block \in Blocks, lastID \in ReadCursors :
          ReadFromStream(c, count, block, lastID)
    \/ \E c \in Clients : Serve(c)
    \/ \E c \in Clients : ServerTimeout(c)
    \/ \E c \in Clients : Deadline(c)
    \/ Tick

SpecRead == Init /\ [][NextRead]_vars

\* the consumers of one group, with the clock
NextTimed ==
    \/ \E v \in OneValue : AddToStream(v, << >>)
    \/ CreateConsumerGroup("c1", "0")
    \/ \E c \in Clients, block \in Blocks, autoAck \in BOOLEAN :
          ReadGroupFromStream(c, 0, block, "", autoAck)
    \/ \E c \in Clients, id \in WireIDs : AcknowledgeMessage(c, id)
    \/ \E c \in Clients, minIdle \in MinIdles, startID \in ClaimStarts,
          count \in Counts :
          ClaimPendingMessages(c, minIdle, startID, count, FALSE)
    \/ \E c \in Clients : AckNext(c)
    \/ \E c \in Clients : Serve(c)
    \/ \E c \in Clients : ServerTimeout(c)
    \/ \E c \in Clients : Deadline(c)
    \/ Tick

SpecTimed == InitReliable /\ [][NextTimed]_vars

\* readers and claimers of one group, a direct reader, and the clock
NextClaim ==
    \/ \E v \in Values : AddToStream(v, << >>)
    \/ CreateConsumerGroup("c1", "0")
    \/ ReadGroupFromStream("c1", 0, 0, "", FALSE)
    \/ \E id \in WireIDs : AcknowledgeMessage("c1", id)
    \/ \E minIdle \in MinIdles, count \in Counts :
          ClaimPendingMessages("c2", minIdle, "0-0", count, FALSE)
    \/ ReadFromStream("c2", 0, 0, "")
    \/ \E c \in Clients : Serve(c)
    \/ \E c \in Clients : Deadline(c)
    \/ Tick

SpecClaim == InitReliable /\ [][NextClaim]_vars

\* a claim loop over a long pending list: ScanLen entries were appended;
\* a group read has delivered the first MaxId of them to c1 at time 0 and
\* another the rest at time 1, which is now
InitScan ==
    /\ stream = [i \in 1..ScanLen |-> [id |-> i, fields |-> "v1"]]
    /\ streamExists = TRUE
    /\ groupExists = TRUE
    /\ lastDelivered = ScanLen
    /\ groupStart = 0
    /\ pel = {[id |-> i, consumer |-> "c1",
                 dtime |-> IF i <= MaxId THEN 0 ELSE 1, count |-> 1] :
                 i \in 1..ScanLen}
    /\ now = 1
    /\ call = [c \in Clients |-> Idle]
    /\ faults = 0
    /\ served = [id \in 1..MaxId |-> 1]
    /\ returned = [id \in 1..MaxId |-> 1]
    /\ last = Step(NoReq, "", FALSE, NoErr, NoCause, << >>)
    /\ scan = [c \in Clients |-> FormatID(0)]

\* a min_idle no entry reaches while the clock runs
ScanIdle == MaxTime + 1

ScanIdles == {1, ScanIdle}

ScanRound == \E minIdle \in ScanIdles, count \in Counts :
                ClaimScan("c2", minIdle, count)

NextScan ==
    \/ ScanRound
    \/ \E id \in WireIDs : AcknowledgeMessage("c1", id)

\* a round of the loop that is under way can be taken and moves the cursor
ScanReady == Quiet /\ Starts("c2") /\ groupExists /\ scan["c2"] # FormatID(0)

\* the caller keeps calling: weak fairness of the rounds of a loop under
\* way, WF_vars(ScanRound) with the enabling condition written out
ScanFair == []<>(~ScanReady) \/ []<><<ScanRound>>_vars

SpecScan == InitScan /\ [][NextScan]_vars /\ ScanFair

\* recovery: c1 reads and may stop for good at any point, c2 runs claim
\* scans with a fixed min_idle
RecoverIdle == 2

RecoverRound == \E count \in Counts : ClaimScan("c2", RecoverIdle, count)

NextRecover ==
    \/ \E v \in OneValue : AddToStream(v, << >>)
    \/ CreateConsumerGroup("c1", "0")
    \/ ReadGroupFromStream("c1", 0, 0, "", FALSE)
    \/ \E id \in WireIDs : AcknowledgeMessage("c1", id)
    \/ RecoverRound
    \/ Serve("c1")
    \/ Deadline("c1")
    \/ Tick

\* a round can be taken and changes the cursor or the pending list
RecoverReady ==
    /\ Quiet
    /\ Starts("c2")
    /\ groupExists
    /\ \/ scan["c2"] # FormatID(0)
       \/ \E r \in pel : now - r.dtime >= RecoverIdle

\* c2 keeps calling (weak fairness of its rounds, with the enabling
\* condition written out), the clock advances, and the server and the
\* runtime end the waits of c1; the calls of c1 have no fairness
RecoverFair ==
    /\ []<>(~RecoverReady) \/ []<><<RecoverRound>>_vars
    /\ WF_vars(Tick)
    /\ WF_vars(Serve("c1"))
    /\ WF_vars(Deadline("c1"))

SpecRecover == InitReliable /\ [][NextRecover]_vars /\ RecoverFair


\* every operation of one caller, default and supplied arguments, against a
\* backing service that may fail
ClaimCounts == {-1, 0, 1}
SuppliedIDs == {"2-0"}
SuppliedCursors == {"1-0"}

NextCalls ==
    \/ \E v \in OneValue, id \in {<< >>} \cup {<<w>> : w \in SuppliedIDs} :
          AddToStream(v, id)
    \/ \E startID \in StartIDs : CreateConsumerGroup("c1", startID)
    \/ \E lastID \in {""} \cup SuppliedCursors :
          ReadFromStream("c1", 0, 0, lastID)
    \/ \E lastID \in Cursors, autoAck \in BOOLEAN :
          ReadGroupFromStream("c1", 0, 0, lastID, autoAck)
    \/ \E id \in WireIDs : AcknowledgeMessage("c1", id)
    \/ \E count \in ClaimCounts : ClaimPendingMessages("c1", 0, "0-0", count, FALSE)
    \/ AckNext("c1")
    \/ Serve("c1")

SpecCalls == Init /\ [][NextCalls]_vars

\* a group reader and a direct reader that wait, a producer, and the clock
NextBlock ==
    \/ \E v \in OneValue : AddToStream(v, << >>)
    \/ CreateConsumerGroup("c1", "0")
    \/ \E block \in Blocks : ReadGroupFromStream("c1", 0, block, "", FALSE)
    \/ \E block \in Blocks, lastID \in {""} \cup SuppliedCursors :
          ReadFromStream("c2", 0, block, lastID)
    \/ \E c \in Clients : Serve(c)
    \/ \E c \in Clients : ServerTimeout(c)
    \/ \E c \in Clients : Deadline(c)
    \/ Tick

SpecBlock == InitReliable /\ [][NextBlock]_vars

\* consumer c1 reads with autoAck while consumer c2 claims, with the clock
NextRace ==
    \/ \E v \in OneValue : AddToStream(v, << >>)
    \/ CreateConsumerGroup("c1", "0")
    \/ \E count \in Counts : ReadGroupFromStream("c1", count, 0, "", TRUE)
    \/ \E minIdle \in MinIdles, count \in Counts, autoAck \in BOOLEAN :
          ClaimPendingMessages("c2", minIdle, "0-0", count, autoAck)
    \/ \E c \in Clients : AckNext(c)
    \/ Serve("c1")
    \/ Deadline("c1")
    \/ Tick

SpecRace == InitReliable /\ [][NextRace]_vars

\* the batch client c was served and returns when its auto-ack loop ends
InProgress(c) ==
    IF call[c].st = "acking" THEN MsgIds(call[c].msgs) ELSE {}

\* ------------------------------------------------------------ properties
RGDone ==
    /\ last.api = "ReadGroupFromStream"
    /\ last.done
    /\ last.err = NoErr

\* C1: a read with the group-relative cursor (lastID empty) never returns an
\* entry id that an earlier read with that cursor returned, acknowledged or
\* not: no id is returned twice by such reads
C1_NoRedelivery == \A id \in 1..MaxId : returned[id] <= 1

\* a group-cursor read has returned a batch after an earlier one returned
\* another entry, which is still pending or was acknowledged meanwhile
C1_Witness ==
    /\ RGDone
    /\ last.req.lastID = ""
    /\ Len(last.msgs) > 0
    /\ \E id \in 1..MaxId : returned[id] = 1 /\ id \notin MsgIds(last.msgs)

\* C2: every entry id has at most one record, hence at most one owner, in
\* the group's pending entry list
C2_OneOwner == \A r1 \in pel, r2 \in pel : r1.id = r2.id => r1 = r2

\* a claim has moved a pending entry from one consumer to another while the
\* other consumer is in the middle of its own call
C2_Witness ==
    /\ last.api = "ClaimPendingMessages"
    /\ \E r \in pel : /\ r.consumer = last.client
                      /\ r.count >= 2
                      /\ FormatID(r.id) \in {last.delivered[i].ID :
                                                i \in 1..Len(last.delivered)}
    /\ \E c \in Clients : c # last.client /\ call[c].st = "acking"

\* C3: however the group-cursor reads of the consumers interleave, every
\* entry after the group's start that last_delivered has passed was handed
\* to exactly one of them, and no entry beyond it to any: none is delivered
\* to two calls, none is skipped
C3_ExactlyOnce ==
    /\ \A id \in 1..MaxId : served[id] <= 1 /\ returned[id] <= served[id]
    /\ \A id \in StreamIds :
          served[id] = IF groupExists /\ groupStart < id /\ id <= lastDelivered
                       THEN 1 ELSE 0

\* two consumers waited at the same time, entries arrived, and each got one
C3_Witness ==
    /\ RGDone
    /\ last.req.waited
    /\ \E r1 \in pel, r2 \in pel :
          /\ r1.consumer # r2.consumer
          /\ served[r1.id] = 1 /\ served[r2.id] = 1
          /\ returned[r1.id] = 1 /\ returned[r2.id] = 1

\* C5: when ReadGroupFromStream with autoAck returns without error, none of
\* the returned ids is pending and the returned batch is the delivered one
C5_AutoAckClears ==
    (RGDone /\ last.req.autoAck) =>
        /\ \A id \in MsgIds(last.msgs) : ~Pending(id)
        /\ last.msgs = last.delivered

\* an auto-ack read has returned a batch of two
C5_Witness ==
    /\ RGDone
    /\ last.req.autoAck
    /\ Len(last.msgs) = 2
    /\ last.acks = 2

\* C8: when ReadGroupFromStream without autoAck returns entries to consumer
\* c, each is pending for c afterwards, with delivery_count 1 if it was not
\* pending before and one more than before if it was
C8_Recorded ==
    [][(/\ last'.api = "ReadGroupFromStream"
        /\ last'.done
        /\ last'.err = NoErr
        /\ ~last'.req.autoAck)
       => \A id \in MsgIds(last'.msgs) :
             \E r \in pel' :
                /\ r.id = id
                /\ r.consumer = last'.client
                /\ r.count = IF Pending(id) THEN PendingOf(id).count + 1 ELSE 1]_vars

\* a read with an explicit cursor has replayed an entry to its owner
C8_Witness ==
    /\ RGDone
    /\ ~last.req.autoAck
    /\ last.req.lastID = "0"
    /\ \E r \in pel : /\ r.id \in MsgIds(last.msgs)
                      /\ r.consumer = last.client
                      /\ r.count = 2

\* C9: AcknowledgeMessage returns 1 and removes the pending entry when the
\* id is pending, and returns 0 and changes nothing when it is not
C9_AckIdempotent ==
    [][(last'.api = "AcknowledgeMessage" /\ last'.err = NoErr)
       => LET id == ParseID(last'.id)
          IN /\ last'.n = IF Pending(id) THEN 1 ELSE 0
             /\ pel' = {r \in pel : r.id # id}
             /\ ~Pending(id) => pel' = pel]_vars

\* the second acknowledgment of a delivered entry has returned 0
C9_Witness ==
    /\ last.api = "AcknowledgeMessage"
    /\ last.n = 0
    /\ served[ParseID(last.id)] = 1

\* C10: the last_delivered id of an existing group never decreases, and it
\* changes only in a step in which the server delivers entries to a
\* group-cursor read; acknowledgments leave it unchanged
C10_LastDelivered ==
    [][groupExists =>
          /\ lastDelivered' >= lastDelivered
          /\ lastDelivered' # lastDelivered =>
                /\ last'.api = "ReadGroupFromStream"
                /\ last'.acks = 0
                /\ Len(last'.delivered) > 0
                /\ lastDelivered' = ParseID(last'.delivered[Len(last'.delivered)].ID)
          /\ last'.acks > 0 => lastDelivered' = lastDelivered]_vars

\* an acknowledgment has removed an entry of a group that has delivered
C10_Witness ==
    /\ last.acks > 0
    /\ last.n = 1
    /\ lastDelivered > 0

ClaimedIds(step) == {ParseID(step.delivered[i].ID) : i \in 1..Len(step.delivered)}

\* C11: every entry a ClaimPendingMessages call by consumer B returns was
\* pending, and after the call its owner is B, its delivery_time is the time
\* of the claim, its delivery_count is one more than before, and the id and
\* fields returned are those appended; a claim with min_idle 0 from the
\* start cursor with a count of at least the size of the pending list
\* reassigns every pending entry to B
C11_ClaimReassigns ==
    [][(/\ last'.api = "ClaimPendingMessages"
        /\ last'.done
        /\ last'.err = NoErr
        /\ ~last'.req.autoAck)
       => /\ \A i \in 1..Len(last'.msgs) :
                LET id == ParseID(last'.msgs[i].ID)
                IN /\ Pending(id)
                   /\ id \in StreamIds
                   /\ last'.msgs[i].Values = EntryOf(id).fields
                   /\ \E r \in pel' :
                         /\ r.id = id
                         /\ r.consumer = last'.client
                         /\ r.dtime = now'
                         /\ r.count = PendingOf(id).count + 1
          /\ (/\ last'.req.block = 0
              /\ ParseID(last'.req.cursor) = 0
              /\ last'.req.count >= Cardinality(pel))
             => /\ MsgIds(last'.msgs) = {r.id : r \in pel}
                /\ \A r \in pel' : r.consumer = last'.client]_vars

\* a consumer has claimed, some time after their delivery, two entries with
\* different fields from the other consumer
C11_Witness ==
    /\ last.api = "ClaimPendingMessages"
    /\ last.done
    /\ last.err = NoErr
    /\ now > 0
    /\ Len(last.msgs) = 2
    /\ last.msgs[1].Values # last.msgs[2].Values
    /\ \A r \in pel : r.consumer = last.client /\ r.count = 2 /\ r.dtime = now

\* C12: a ClaimPendingMessages request leaves every pending entry whose
\* idle time is less than min_idle as it is (owner, delivery_time and
\* delivery_count) and does not return it
C12_FreshUntouched ==
    [][(last'.api = "ClaimPendingMessages" /\ last'.acks = 0)
       => \A r \in pel :
             now - r.dtime < last'.req.block
             => (r \in pel' /\ r.id \notin ClaimedIds(last'))]_vars

\* a claim has taken an idle entry and passed over a fresh one that another
\* consumer owns
C12_Witness ==
    /\ last.api = "ClaimPendingMessages"
    /\ last.done
    /\ last.req.block > 0
    /\ Len(last.msgs) = 1
    /\ \E r \in pel : /\ r.consumer # last.client
                      /\ now - r.dtime < last.req.block
                      /\ r.id \notin MsgIds(last.msgs)
                      /\ r.id >= ParseID(last.req.cursor)

\* C13: a claim call that does not finish the scan returns a cursor strictly
\* beyond the one it was given, and a loop that feeds each returned cursor
\* into the next call reaches the end-of-scan cursor "0-0" again and again,
\* also when min_idle is so large that no call claims an entry
C13_ScanEnds ==
    /\ [][(/\ last'.api = "ClaimPendingMessages"
            /\ last'.done
            /\ last'.err = NoErr)
           => \/ last'.next = FormatID(0)
              \/ ParseID(last'.next) > ParseID(last'.req.cursor)]_vars
    /\ []<>(scan["c2"] = FormatID(0))

\* a call has looked at its 10 * count entries, claimed none of them and
\* returned the cursor of the first entry it did not look at
C13_Witness ==
    /\ last.api = "ClaimPendingMessages"
    /\ last.done
    /\ last.err = NoErr
    /\ last.req.block = ScanIdle
    /\ Len(last.msgs) = 0
    /\ last.next # FormatID(0)
    /\ scan["c2"] = last.next
    /\ Cardinality(pel) > AttemptsFactor * last.req.count

\* C14: c1 may stop at any point while it owns pending entries; c2 keeps
\* running claim scans with min_idle RecoverIdle, the clock advances and the
\* backing service answers.  Every entry c1 owns, delivered early enough for
\* the clock to reach its idle threshold, is eventually acknowledged or
\* owned by c2
C14_Recovered ==
    \A id \in 1..MaxId :
        (/\ Pending(id)
         /\ PendingOf(id).consumer = "c1"
         /\ PendingOf(id).dtime + RecoverIdle <= MaxTime)
        ~> (~Pending(id) \/ PendingOf(id).consumer = "c2")

\* a scan of c2 has taken over an entry that c1 had left pending for
\* RecoverIdle
C14_Witness ==
    /\ last.api = "ClaimPendingMessages"
    /\ last.client = "c2"
    /\ last.req.block = RecoverIdle
    /\ Len(last.msgs) > 0
    /\ \A i \in 1..Len(last.msgs) :
          /\ Pending(ParseID(last.msgs[i].ID))
          /\ PendingOf(ParseID(last.msgs[i].ID)).consumer = "c2"
          /\ PendingOf(ParseID(last.msgs[i].ID)).count = 2
          /\ PendingOf(ParseID(last.msgs[i].ID)).dtime = now
    /\ now >= RecoverIdle

\* C15: a pending entry keeps its place in the pending entry list and its
\* owner through every step that neither acknowledges its id nor is a claim
\* returning it; append, direct read, group creation, a read with the
\* group-relative cursor and the passing of time leave its record unchanged
C15_OwnerKept ==
    [][\A r \in pel :
          /\ (/\ ~(last'.acks > 0 /\ ParseID(last'.id) = r.id)
              /\ ~(last'.api = "ClaimPendingMessages" /\ r.id \in ClaimedIds(last')))
             => \E q \in pel' : q.id = r.id /\ q.consumer = r.consumer
          /\ (/\ last'.acks = 0
              /\ \/ last'.api \in {"AddToStream", "ReadFromStream",
                                    "CreateConsumerGroup", "Tick"}
                 \/ last'.api = "ReadGroupFromStream" /\ last'.req.lastID = "")
             => r \in pel']_vars

\* while one consumer owns a pending entry, time has passed and the other
\* consumer has read a later entry with the group-relative cursor
C15_Witness ==
    /\ RGDone
    /\ last.req.lastID = ""
    /\ Len(last.msgs) > 0
    /\ \E r \in pel : /\ r.consumer # last.client
                      /\ r.dtime < now
                      /\ r.id \notin MsgIds(last.msgs)

\* C16: an entry that was delivered and is no longer pending (it was
\* acknowledged) never becomes pending again; an entry becomes pending only
\* by its first delivery, with delivery_count 1; while it is pending its
\* count never decreases and a claim that returns it adds one
C16_AckIsFinal ==
    [][\A id \in 1..MaxId :
          /\ (~Pending(id) /\ served[id] > 0) => ~(\E q \in pel' : q.id = id)
          /\ (~Pending(id) /\ \E q \in pel' : q.id = id)
             => /\ served[id] = 0
                /\ served'[id] = 1
                /\ \A q \in pel' : q.id = id => q.count = 1
          /\ Pending(id)
             => \A q \in pel' :
                   q.id = id
                   => /\ q.count >= PendingOf(id).count
                      /\ (/\ last'.api = "ClaimPendingMessages"
                          /\ last'.acks = 0
                          /\ id \in ClaimedIds(last'))
                         => q.count = PendingOf(id).count + 1]_vars

\* after an entry was acknowledged, a claim has returned another entry and
\* the acknowledged one has stayed out of the pending list
C16_Witness ==
    /\ last.api = "ClaimPendingMessages"
    /\ last.done
    /\ Len(last.msgs) > 0
    /\ \E id \in 1..MaxId : /\ served[id] = 1
                            /\ ~Pending(id)
                            /\ id < lastDelivered
                            /\ id \notin MsgIds(last.msgs)

\* C17: CreateConsumerGroup with an empty startID starts the group at the
\* last entry of the log as it is then; no read with the group-relative
\* cursor is served an entry at or before the group's start, and such a
\* read without a count limit is served every entry after it not yet
\* delivered
C17_OnlyNew ==
    /\ [][(/\ last'.api = "CreateConsumerGroup"
            /\ last'.err = NoErr
            /\ last'.req.lastID = "")
           => /\ groupStart' = LastId(stream)
              /\ lastDelivered' = LastId(stream)]_vars
    /\ [][(/\ last'.api = "ReadGroupFromStream"
            /\ last'.req.lastID = ""
            /\ last'.acks = 0
            /\ Len(last'.delivered) > 0)
           => /\ \A id \in ClaimedIds(last') : id > groupStart
              /\ last'.req.count = 0
                 => ClaimedIds(last') = {id \in StreamIds : id > lastDelivered}]_vars
    /\ [](\A id \in StreamIds : id <= groupStart => served[id] = 0)

\* a group created with the default start after the first append has been
\* read: the read returned the second entry and not the first
C17_Witness ==
    /\ RGDone
    /\ last.req.lastID = ""
    /\ groupStart = 1
    /\ MsgIds(last.msgs) = {2}
    /\ served[1] = 0
    /\ served[2] = 1

\* C18: CreateConsumerGroup for a group that exists returns
\* ErrCreateConsumerGroup wrapping BUSYGROUP unless the transport failed,
\* BUSYGROUP is wrapped in no other case, and the group's last_delivered id
\* and pending entry list are as before
C18_ExistsIsDistinct ==
    [][last'.api = "CreateConsumerGroup"
       => /\ groupExists
             => /\ last'.err = ErrCreateConsumerGroup
                /\ last'.cause \in {CauseBusyGroup, CauseTransport}
                /\ groupExists'
                /\ lastDelivered' = lastDelivered
                /\ groupStart' = groupStart
                /\ pel' = pel
          /\ last'.cause = CauseBusyGroup => groupExists
          /\ ~groupExists => last'.cause \in {NoCause, CauseTransport}]_vars

\* a second creation has been refused while the group has delivered entries
\* and holds pending ones
C18_Witness ==
    /\ last.api = "CreateConsumerGroup"
    /\ last.err = ErrCreateConsumerGroup
    /\ last.cause = CauseBusyGroup
    /\ lastDelivered > 0
    /\ pel # {}

\* C19: CreateConsumerGroup on a key that does not exist succeeds and
\* creates the stream as an empty log with the group on it; a group's
\* stream always exists, and a read_group or an append that follows does
\* not fail for a missing group or stream
C19_MakesStream ==
    /\ [][(/\ last'.api = "CreateConsumerGroup"
            /\ ~streamExists
            /\ last'.cause # CauseTransport)
           => /\ last'.err = NoErr
              /\ streamExists'
              /\ groupExists'
              /\ stream' = << >>
              /\ pel' = {}]_vars
    /\ [][(groupExists /\ last'.api \in {"ReadGroupFromStream", "AddToStream"})
           => last'.cause \notin {CauseNoGroup}]_vars
    /\ [](groupExists => streamExists)

\* on a stream that CreateConsumerGroup made, still empty, a read_group
\* waits for entries and a direct read does too
C19_Witness ==
    /\ groupExists
    /\ streamExists
    /\ Len(stream) = 0
    /\ call["c1"].st = "blocked"
    /\ call["c1"].req.api = "ReadGroupFromStream"
    /\ call["c2"].st = "blocked"
    /\ call["c2"].req.api = "ReadFromStream"

\* C20: the log only grows, by entries with larger ids; a ReadFromStream
\* that returns entries returns them in log order with strictly increasing
\* ids, all greater than the cursor passed, with the fields appended, and no
\* entry of the log between the cursor and the last id returned is left
\* out; so a reader that passes the last id it received as the next cursor
\* gets no entry twice, misses none and never goes back, whatever is
\* appended meanwhile
C20_ReadInOrder ==
    /\ [][/\ Len(stream') >= Len(stream)
          /\ \A i \in 1..Len(stream) : stream'[i] = stream[i]
          /\ \A i \in (Len(stream) + 1)..Len(stream') :
                stream'[i].id > LastId(stream)]_vars
    /\ [][(/\ last'.api = "ReadFromStream"
            /\ last'.done
            /\ last'.err = NoErr)
           => LET k == ParseID(last'.req.cursor)
                  msgs == last'.msgs
                  top == ParseID(msgs[Len(msgs)].ID)
              IN /\ Len(msgs) > 0
                 /\ \A i \in 1..Len(msgs) :
                       /\ ParseID(msgs[i].ID) > k
                       /\ ParseID(msgs[i].ID) \in StreamIds
                       /\ msgs[i].Values = EntryOf(ParseID(msgs[i].ID)).fields
                 /\ \A i \in 1..(Len(msgs) - 1) :
                       ParseID(msgs[i].ID) < ParseID(msgs[i + 1].ID)
                 /\ \A id \in StreamIds :
                       (k < id /\ id <= top) => id \in MsgIds(msgs)
                 /\ last'.req.count = 0 => top = LastId(stream)]_vars

\* a reader that passed the id of the first entry as its cursor has waited
\* and got the entry a producer appended meanwhile
C20_Witness ==
    /\ last.api = "ReadFromStream"
    /\ last.done
    /\ last.err = NoErr
    /\ last.req.waited
    /\ last.req.cursor = "1-0"
    /\ Len(stream) = 2
    /\ MsgIds(last.msgs) = {2}

\* C4: when an acknowledgment of the auto-ack loop fails (the server did
\* not apply it), ReadGroupFromStream or ClaimPendingMessages returns the
\* error and every entry the call delivered or claimed is still pending
C4_StillPending ==
    (/\ last.api \in {"ReadGroupFromStream", "ClaimPendingMessages"}
     /\ last.done
     /\ last.req.autoAck
     /\ last.err = ErrAcknowledgeMessage
     /\ ~last.lost)
    => \A id \in MsgIds(last.delivered) : Pending(id)

\* C6: a ReadFromStream with block > 0 whose wait ends with no entry after
\* the cursor returns an empty sequence and no error; an error comes only
\* from a failure of the transport or the backing service
C6_TimeoutIsEmpty ==
    (/\ last.api = "ReadFromStream"
     /\ last.done
     /\ last.req.block > 0
     /\ last.req.waited
     /\ Len(last.delivered) = 0
     /\ last.cause # CauseTransport)
    => (last.err = NoErr /\ last.msgs = << >>)

\* C7: a ReadGroupFromStream with the group-relative cursor that finds no
\* undelivered entry, at once or within its wait, returns an empty sequence
\* and no error and issues no acknowledgment
C7_EmptyIsNoError ==
    (/\ last.api = "ReadGroupFromStream"
     /\ last.done
     /\ last.req.lastID = ""
     /\ last.req.waited
     /\ Len(last.delivered) = 0)
    => (last.err = NoErr /\ last.msgs = << >> /\ last.acks = 0)

\* the message each operation wraps its cause under
OwnErr(api) ==
    CASE api = "AddToStream" -> ErrAddToStream
      [] api = "ReadFromStream" -> ErrReadFromStream
      [] api = "ReadGroupFromStream" -> ErrReadGroupFromStream
      [] api = "AcknowledgeMessage" -> ErrAcknowledgeMessage
      [] api = "CreateConsumerGroup" -> ErrCreateConsumerGroup
      [] api = "ClaimPendingMessages" -> ErrClaimPendingMessages

\* C21: no operation retries. When the backing request of a call fails, the
\* call returns in that step with the cause wrapped under the message of
\* the operation that failed, it has no request left to issue and no
\* acknowledgment follows; a failure that did not reach the server leaves
\* the log, the group and the pending list as they were. A call whose
\* request succeeds has the effect of exactly one request: one entry
\* appended, each delivered id served once, each claimed entry's count
\* raised by one
C21_NoRetry ==
    [][/\ (last'.done /\ last'.cause = CauseTransport) =>
            /\ faults' = faults - 1
            /\ last'.client \in Clients => call'[last'.client] = Idle
            /\ last'.err = IF last'.acks > 0 THEN ErrAcknowledgeMessage
                           ELSE OwnErr(last'.api)
            /\ last'.msgs = << >>
            /\ ~last'.lost =>
                  /\ stream' = stream
                  /\ pel' = pel
                  /\ lastDelivered' = lastDelivered
                  /\ groupExists' = groupExists
                  /\ served' = served
       /\ (last'.err = NoErr /\ last'.acks = 0) =>
            /\ last'.api = "AddToStream" =>
                  /\ Len(stream') = Len(stream) + 1
                  /\ FormatID(LastId(stream')) = last'.id
            /\ (last'.api = "ReadGroupFromStream" /\ last'.req.cursor = ">") =>
                  \A id \in ClaimedIds(last') : served'[id] = served[id] + 1
            /\ last'.api = "ClaimPendingMessages" =>
                  \A id \in ClaimedIds(last') :
                     \E r \in pel, q \in pel' :
                        /\ r.id = id
                        /\ q.id = id
                        /\ q.count = r.count + 1
            /\ last'.api = "ReadFromStream" =>
                  <<stream, pel, lastDelivered>>' = <<stream, pel, lastDelivered>>
      ]_vars

\* a group read with autoAck failed while an undelivered entry was waiting:
\* the call returned the error, the entry is undelivered and not pending
C21_Witness ==
    /\ last.api = "ReadGroupFromStream"
    /\ last.done
    /\ last.req.autoAck
    /\ last.cause = CauseTransport
    /\ last.err = ErrReadGroupFromStream
    /\ ~last.lost
    /\ groupExists
    /\ lastDelivered < LastId(stream)
    /\ pel = {}
    /\ faults = 0

\* C22: an argument left out takes its default and a supplied one is sent
\* as the caller passed it. AddToStream sends "*" without an id and the
\* server assigns the next id, and sends a given id, which the entry gets;
\* ReadFromStream sends "0" for an empty lastID and reads from the start of
\* the log; ReadGroupFromStream sends ">" for an empty lastID and is served
\* only entries no consumer was served before; CreateConsumerGroup sends
\* "$" for an empty startID and the group starts at the log's last id;
\* ClaimPendingMessages sends count 100 for a count of zero or less
C22_Defaults ==
    [][LET req == last'.req
           ok == last'.done /\ last'.err = NoErr
       IN /\ last'.api = "AddToStream" =>
                /\ req.cursor = IF req.lastID = "" THEN "*" ELSE req.lastID
                /\ ok => last'.id = IF req.lastID = ""
                                     THEN FormatID(LastId(stream) + 1)
                                     ELSE req.lastID
          /\ last'.api = "ReadFromStream" =>
                /\ req.cursor = IF req.lastID = "" THEN "0" ELSE req.lastID
                /\ (ok /\ req.lastID = "") =>
                      last'.msgs = [i \in 1..Len(stream) |-> XMessage(stream[i])]
                /\ (ok /\ req.lastID # "") =>
                      \A id \in MsgIds(last'.msgs) : id > ParseID(req.lastID)
          /\ last'.api = "ReadGroupFromStream" =>
                /\ req.cursor = IF req.lastID = "" THEN ">" ELSE req.lastID
                /\ (last'.acks = 0 /\ req.lastID = "") =>
                      \A id \in ClaimedIds(last') : served[id] = 0
                /\ (last'.acks = 0 /\ req.lastID # "") =>
                      \A id \in ClaimedIds(last') :
                         \E r \in pel : r.id = id /\ r.consumer = last'.client
          /\ last'.api = "CreateConsumerGroup" =>
                /\ req.cursor = IF req.lastID = "" THEN "$" ELSE req.lastID
                /\ ok => lastDelivered' = IF req.lastID = "" THEN LastId(stream)
                                          ELSE ParseID(req.lastID)
          /\ last'.api = "ClaimPendingMessages" =>
                /\ req.count = IF req.asked <= 0 THEN 100 ELSE req.asked
                /\ req.cursor = req.lastID
                /\ ok => Len(last'.msgs) <= req.count
      ]_vars

\* a claim called with a negative count was sent with count 100 and
\* returned both pending entries
C22_Witness ==
    /\ last.api = "ClaimPendingMessages"
    /\ last.done
    /\ last.err = NoErr
    /\ last.req.asked < 0
    /\ last.req.count = DefaultClaimCount
    /\ Len(last.msgs) = 2

C24_LostStaysPending ==
    /\ [][(/\ last'.api = "ReadGroupFromStream"
           /\ last'.done
           /\ last'.lost
           /\ last'.acks = 0) =>
             /\ last'.err = ErrReadGroupFromStream
             /\ last'.msgs = << >>
             /\ returned' = returned
             /\ \A id \in ClaimedIds(last') :
                   /\ id <= lastDelivered'
                   /\ \E r \in pel' : r.id = id /\ r.consumer = last'.client
         ]_vars
    /\ [](\A id \in 1..MaxId : served[id] <= 1)
    /\ [][(/\ last'.api = "ReadGroupFromStream"
           /\ last'.acks = 0
           /\ last'.err = NoErr
           /\ last'.req.cursor = "0"
           /\ last'.req.count = 0) =>
             ClaimedIds(last') = {r.id : r \in {q \in pel :
                                                  q.consumer = last'.client}}
         ]_vars
    /\ [][(/\ last'.api = "ClaimPendingMessages"
           /\ last'.acks = 0
           /\ last'.err = NoErr
           /\ last'.req.asked = 0) =>
             ClaimedIds(last') = {r.id : r \in pel}
         ]_vars

\* the answer of a group read that was served two entries got lost: both
\* are pending for the caller, served once and returned to nobody
C24_Witness ==
    /\ last.api = "ReadGroupFromStream"
    /\ last.done
    /\ last.lost
    /\ last.acks = 0
    /\ last.req.cursor = ">"
    /\ Cardinality(ClaimedIds(last)) = 2
    /\ \A id \in ClaimedIds(last) :
          /\ served[id] = 1
          /\ returned[id] = 0
          /\ \E r \in pel : r.id = id /\ r.consumer = "c1" /\ r.count = 1

\* C25: when ClaimPendingMessages with autoAck returns without error, every
\* entry it claimed was acknowledged by the call and none of the returned
\* ids is pending; the call still returns the claimed entries, in id order,
\* and the next cursor of the claim: "0-0" or an id past the entries
C25_ClaimAutoAck ==
    (/\ last.api = "ClaimPendingMessages"
     /\ last.done
     /\ last.err = NoErr
     /\ last.req.autoAck) =>
        /\ \A id \in MsgIds(last.msgs) : ~Pending(id)
        /\ last.msgs = last.delivered
        /\ last.acks = Len(last.msgs)
        /\ \A i \in 1..Len(last.msgs) : \A j \in 1..Len(last.msgs) :
              i < j => ParseID(last.msgs[i].ID) < ParseID(last.msgs[j].ID)
        /\ last.next # ""
        /\ \/ last.next = "0-0"
           \/ \A id \in MsgIds(last.msgs) : id < ParseID(last.next)

\* a claim with autoAck and count 1 took the first of two pending entries,
\* acknowledged it and returned it with the cursor at the second
C25_Witness ==
    /\ last.api = "ClaimPendingMessages"
    /\ last.done
    /\ last.err = NoErr
    /\ last.req.autoAck
    /\ MsgIds(last.msgs) = {1}
    /\ last.acks = 1
    /\ last.next = "2-0"
    /\ ~Pending(1)
    /\ Pending(2)

\* C26 as stated: when the acknowledgment of the k-th entry of the auto-ack
\* loop fails, entries 1..k-1 are no longer pending, entry k and every
\* later entry of the batch are still pending, and the call has returned
C26_FailedIsPending ==
    [][(/\ last'.api \in {"ReadGroupFromStream", "ClaimPendingMessages"}
        /\ last'.acks > 0
        /\ last'.err = ErrAcknowledgeMessage) =>
          LET k == last'.acks
              batch == last'.delivered
              IsPending(i) == \E r \in pel' : r.id = ParseID(batch[i].ID)
          IN /\ call'[last'.client] = Idle
             /\ \A i \in 1..(k - 1) : ~IsPending(i)
             /\ \A i \in k..Len(batch) : IsPending(i)
      ]_vars

\* C26, amended: the auto-ack loop of ReadGroupFromStream and
\* ClaimPendingMessages acknowledges one entry per round, in the order of
\* the returned batch, the k-th round the k-th entry, and a round starts
\* only after the one before has answered. When the acknowledgment of the
\* k-th entry fails the call returns: entries 1..k-1 are no longer pending,
\* the entries after k are still pending and no acknowledgment is issued
\* for them; entry k is still pending exactly when the request failed
\* before the server applied it, and is acknowledged when only the server's
\* answer was lost
C26_StopsAtFirstFailure ==
    [][(/\ last'.api \in {"ReadGroupFromStream", "ClaimPendingMessages"}
        /\ last'.acks > 0) =>
          LET k == last'.acks
              batch == last'.delivered
              c == last'.client
              IsPending(i) == \E r \in pel' : r.id = ParseID(batch[i].ID)
          IN /\ call[c].st = "acking"
             /\ call[c].acks = k - 1
             /\ call[c].msgs = batch
             /\ k <= Len(batch)
             /\ last'.id = batch[k].ID
             /\ last'.err = NoErr =>
                   /\ \A i \in 1..k : ~IsPending(i)
                   /\ \A i \in (k + 1)..Len(batch) : IsPending(i)
                   /\ last'.done <=> k = Len(batch)
             /\ last'.err # NoErr =>
                   /\ last'.err = ErrAcknowledgeMessage
                   /\ last'.done
                   /\ call'[c] = Idle
                   /\ \A i \in 1..(k - 1) : ~IsPending(i)
                   /\ \A i \in (k + 1)..Len(batch) : IsPending(i)
                   /\ IsPending(k) <=> ~last'.lost
      ]_vars

\* the second acknowledgment of a batch of two failed before the server
\* applied it: the first entry is acknowledged, the second is pending
C26_Witness ==
    /\ last.api = "ReadGroupFromStream"
    /\ last.done
    /\ last.err = ErrAcknowledgeMessage
    /\ ~last.lost
    /\ last.acks = 2
    /\ Len(last.delivered) = 2
    /\ ~Pending(1)
    /\ Pending(2)
    /\ call["c1"] = Idle

\* C27: a ReadFromStream or ReadGroupFromStream call with block > 0 has its
\* deadline block + timeout after its start, timeout after the end of its
\* wait: while the call waits the clock has not passed the end of the wait
\* and the deadline is still ahead. No such call ends with the deadline's
\* error, and a waiting call that an entry has become available to ends
\* only by returning entries, without error
C27_DeadlineCoversBlock ==
    /\ [](\A c \in Clients :
            (call[c].st = "blocked" /\ call[c].req.block > 0) =>
               /\ call[c].deadline = call[c].wake + timeout
               /\ now <= call[c].wake
               /\ now < call[c].deadline)
    /\ [][\A c \in Clients :
            (call[c].st = "idle" /\ call'[c].st = "blocked") =>
               /\ call'[c].deadline = now + call'[c].req.block + timeout
               /\ call'[c].req.block > 0 =>
                     call'[c].wake = now + call'[c].req.block
         ]_vars
    /\ [][(last'.done /\ last'.cause = CauseDeadline) => last'.req.block = 0
         ]_vars
    /\ [][\A c \in Clients :
            (/\ call[c].st = "blocked"
             /\ call[c].req.block > 0
             /\ Serviceable(c)
             /\ call'[c] # call[c]) =>
               /\ call'[c] = Idle
               /\ last'.client = c
               /\ last'.done
               /\ last'.err = NoErr
               /\ Len(last'.msgs) > 0
         ]_vars

\* a group read with block > 0 that had waited for the length of the
\* timeout was served the entry that arrived then, and returned it
C27_Witness ==
    /\ last.api = "ReadGroupFromStream"
    /\ last.done
    /\ last.err = NoErr
    /\ last.req.block > 0
    /\ last.req.waited
    /\ Len(last.msgs) = 1
    /\ now >= timeout

\* C28 as stated: for any interleaving of c1's ReadGroupFromStream with
\* autoAck and c2's ClaimPendingMessages with any min_idle, no failure, no
\* id is returned to both: a claim of c2 returns no id of a batch that
\* c1's read was served and returns at the end of its auto-ack loop
C28_OneCaller ==
    (/\ last.api = "ClaimPendingMessages"
     /\ last.client = "c2"
     /\ last.err = NoErr
     /\ last.acks = 0) =>
        ClaimedIds(last) \cap InProgress("c1") = {}

\* C28, amended: a claim of c2 returns an id that c1's read with autoAck
\* returns only if the claim ran after the read was served the entry and
\* before the read acknowledged it, and the entry had then been idle for at
\* least the claim's min_idle. A claim returns only pending ids, a read
\* with autoAck that returns has acknowledged its ids, and a read is served
\* only ids never served before: so a claim never returns an id that a
\* finished read returned, nor a read an id that a claim returned before
\* the read was served
C28_OnlyIdleInBetween ==
    /\ [][(/\ last'.api = "ClaimPendingMessages"
           /\ last'.client = "c2"
           /\ last'.acks = 0) =>
             \A id \in ClaimedIds(last') :
                /\ returned[id] = 0
                /\ \E r \in pel : r.id = id /\ now - r.dtime >= last'.req.block
                /\ id \in InProgress("c1") => served[id] = 1
         ]_vars
    /\ [][(/\ last'.api = "ReadGroupFromStream"
           /\ last'.acks = 0) =>
             \A id \in ClaimedIds(last') :
                served[id] = 0 /\ ~Pending(id)
         ]_vars
    /\ [](RGDone => /\ last.msgs = last.delivered
                    /\ \A id \in MsgIds(last.msgs) : ~Pending(id))

\* while c1's read with autoAck holds a batch of two it has not yet
\* acknowledged, a claim of c2 with min_idle above the entries' idle time
\* ran over both and returned nothing
C28_Witness ==
    /\ last.api = "ClaimPendingMessages"
    /\ last.client = "c2"
    /\ last.done
    /\ last.err = NoErr
    /\ last.req.block > 0
    /\ last.msgs = << >>
    /\ InProgress("c1") = {1, 2}
    /\ \A r \in pel : r.consumer = "c1" /\ now - r.dtime < last.req.block
    /\ Cardinality(pel) = 2

\* C29: every id in the pending list is the id of an entry of the log, lies
\* after the group's start and at or before last_delivered, and was served
\* by a read with the group-relative cursor: no read and no claim makes an
\* entry pending that the group has not delivered. A claim returns only
\* entries that were pending before it: right after the claim each is the
\* claimer's, with a delivery_count of at least 2
C29_PendingWasDelivered ==
    /\ \A r \in pel :
          /\ groupExists
          /\ r.id \in StreamIds
          /\ r.id > groupStart
          /\ r.id <= lastDelivered
          /\ served[r.id] = 1
    /\ (/\ last.api \in {"ReadGroupFromStream", "ClaimPendingMessages"}
        /\ last.err = NoErr) =>
          \A id \in ClaimedIds(last) :
             id \in StreamIds /\ id <= lastDelivered /\ served[id] = 1
    /\ (/\ last.api = "ClaimPendingMessages"
        /\ last.err = NoErr
        /\ last.acks = 0) =>
          \A id \in ClaimedIds(last) :
             \E r \in pel : /\ r.id = id
                            /\ r.consumer = last.client
                            /\ r.count >= 2

\* a claim returned the one pending entry while a later entry of the log is
\* undelivered: that entry is not pending and was not returned
C29_Witness ==
    /\ last.api = "ClaimPendingMessages"
    /\ last.done
    /\ last.err = NoErr
    /\ last.req.asked = 0
    /\ MsgIds(last.msgs) = {1}
    /\ Len(stream) = 2
    /\ lastDelivered = 1
    /\ ~Pending(2)
    /\ \E r \in pel : r.id = 1 /\ r.consumer = last.client /\ r.count = 2

\* C30: when an acknowledgment of the auto-ack loop fails, the call returns
\* the acknowledgment error with no entry, and ClaimPendingMessages with an
\* empty next cursor, although the request before had changed the pending
\* list: a batch was delivered or claimed, the entries of a group-cursor
\* read were served and count as delivered but are returned to nobody, and
\* the entries the loop had not reached are pending for the caller, those
\* of a claim with their delivery_count raised
C30_NothingReturned ==
    (/\ last.api \in {"ReadGroupFromStream", "ClaimPendingMessages"}
     /\ last.done
     /\ last.acks > 0
     /\ last.err # NoErr) =>
        /\ last.err = ErrAcknowledgeMessage
        /\ last.cause = CauseTransport
        /\ last.req.autoAck
        /\ last.msgs = << >>
        /\ last.next = ""
        /\ Len(last.delivered) >= last.acks
        /\ last.req.cursor = ">" =>
              \A id \in ClaimedIds(last) :
                 /\ served[id] = 1
                 /\ returned[id] = 0
                 /\ id <= lastDelivered
        /\ \A i \in (last.acks + 1)..Len(last.delivered) :
              \E r \in pel :
                 /\ r.id = ParseID(last.delivered[i].ID)
                 /\ r.consumer = last.client
                 /\ last.api = "ClaimPendingMessages" => r.count >= 2

\* the first acknowledgment of a claim of two entries failed: the call
\* returned the error, no entry and no cursor, and both entries are the
\* claimer's with delivery_count 2
C30_Witness ==
    /\ last.api = "ClaimPendingMessages"
    /\ last.done
    /\ last.err = ErrAcknowledgeMessage
    /\ ~last.lost
    /\ last.acks = 1
    /\ Len(last.delivered) = 2
    /\ last.msgs = << >>
    /\ last.next = ""
    /\ Cardinality(pel) = 2
    /\ \A r \in pel : r.consumer = last.client /\ r.count = 2

=============================================================================
